---- MODULE Spec2Model ----
(***************************************************************************)
(* Disk-backed B-tree index of rustdb (src/src/index/btree.rs) and the     *)
(* buffer pool below it (src/src/storage/buffer_pool.rs, page.rs).         *)
(*                                                                         *)
(* Spec is the tree under a workload of inserts and deletes, SpecDrain     *)
(* the tree filled and then emptied, SpecDurable the tree under a short    *)
(* workload with flush_all, SpecFail the tree over a pager whose writes    *)
(* can fail, SpecTasks the tree behind a RwLock shared by tasks, SpecPool  *)
(* the buffer pool under concurrent calls of its methods, SpecPoolFail     *)
(* the pool over a file that rejects writes, SpecTreePool the pool under   *)
(* the page requests of the tree, SpecLatch the locks the calls of the     *)
(* pool take, SpecPage one slotted page under its record methods and       *)
(* SpecTable the heap of rows of table.rs.                                 *)
(*                                                                         *)
(* Nodes live in pages addressed by PageId; every operation loads a node   *)
(* from its page into a private in-memory copy, changes the copy and       *)
(* saves it back.  The operators below follow that discipline: a "store"   *)
(* record carries the pages, the pager's allocation state, the tree's      *)
(* root_page_id and the status of the running operation ("ok", the         *)
(* duplicate-key error "dup", or "panic" for an out-of-bounds index).      *)
(* Vec indexes are kept 0-based as in the source; At(s, i) reads s[i].     *)
(* Keys are naturals standing for byte strings that differ in their first  *)
(* byte, so that the byte-wise lexicographic order of the source is <.     *)
(***************************************************************************)
EXTENDS Integers, Sequences, FiniteSets, Bags, TLC

B == 6
MIN_KEYS == B - 1
MAX_KEYS == 2 * B - 1

\* the tree of the test-suite is created with unique: true
unique == TRUE

\* ---- bounds of the exploration ----
\* mixed workload: any NumKeys keys, at most MaxOps operations
NumKeys == 12
MaxOps == 16
\* sequential load of LoadCount keys followed by at most MaxProbes
\* operations on the keys within ProbeSpan of the middle of the loaded range
LoadCount == 78
MaxProbes == 2
ProbeSpan == 24
\* crash-stop scenario: at most DurableOps operations before flush_all
DurableOps == 3
\* failing pager: in a call the n-th node write fails, n up to MaxWrites;
\* at most FailProbes calls after the sequential fill
MaxWrites == 4
FailProbes == 1
\* buffer pool: NumTasks tasks, at most MaxCalls calls of the pool's methods
NumTasks == 2
\* pool locks: tasks calling the pool, one call sequence each
NumLatchTasks == 3
MaxCalls == 7
\* slotted page: at most MaxPageOps calls of its methods, slot ids up to
\* MaxSlot, the largest record has BigLen bytes
MaxPageOps == 5
MaxSlot == 2
BigLen == 2000
\* drain scenario: any of the keys 1..DrainCount are inserted in any order
\* into the new tree and then deleted in any order
DrainCount == 13
\* table: at most MaxInserts calls of insert
MaxInserts == 12

Keys == 1..NumKeys
ProbeKeys == (LoadCount - ProbeSpan)..(LoadCount + ProbeSpan)
NoVal == 0
\* row id handed to insert for key k: a row inserted while the key is
\* already indexed is a different row, hence a different row id
RowIdFor(k, present) == IF present THEN 2 * k + 1 ELSE 2 * k

\* the tree, its workload, and the dirty flags and file behind its pages
VARIABLES root_page_id, pages, free_list, next_page_num, result, expected, ops, loaded, descending,
          dirty_nodes, disk_nodes
\* the buffer pool, the page buffers, the file, the calls in flight
VARIABLES pool_pages, lru, stats, stamps, buffers, disk, calls, handles,
          pool_result, evicted, pool_calls, asked
\* a slotted page, the records its callers hold, the last call of a method
\* of the page and the number of calls so far
VARIABLES slotted, recs, page_call, page_ops
\* the RwLock around the tree, and for each task of test_concurrent_access
\* where it stands, the root it has loaded and the value it has read
VARIABLES rwlock, task_pc, task_root, task_value
\* the table: its pages, its TableStats, the last call of insert and the
\* number of calls so far
VARIABLES table_pages, table_stats, table_call, table_calls
\* the locks of the pool around one cached page (the page map, the entry,
\* the page's own latch, the statistics) with the entry's dirty flag, and
\* for each task that calls the pool the lock it is about to ask for
VARIABLES latches, latch_pc
tvars == <<root_page_id, pages, free_list, next_page_num, result, expected, ops, loaded, descending,
           dirty_nodes, disk_nodes>>
pvars == <<pool_pages, lru, stats, stamps, buffers, disk, calls, handles,
           pool_result, evicted, pool_calls, asked>>
rvars == <<slotted, recs, page_call, page_ops>>
kvars == <<rwlock, task_pc, task_root, task_value>>
hvars == <<table_pages, table_stats, table_call, table_calls>>
lvars == <<latches, latch_pc>>
xvars == <<rvars, kvars, hvars, lvars>>
vars == <<tvars, pvars, xvars>>

\* ---- Vec helpers (0-based indexes) ----
At(s, i) == s[i + 1]
VecInsert(s, i, x) == SubSeq(s, 1, i) \o <<x>> \o SubSeq(s, i + 1, Len(s))
VecRemove(s, i) == SubSeq(s, 1, i) \o SubSeq(s, i + 2, Len(s))
VecSet(s, i, x) == [s EXCEPT ![i + 1] = x]
SplitOffKeep(s, at) == SubSeq(s, 1, at)
SplitOffTail(s, at) == SubSeq(s, at + 1, Len(s))

\* ---- Node ----
NewNode(page_id, is_leaf) ==
  [page_id |-> page_id, keys |-> <<>>, values |-> <<>>, children |-> <<>>,
   is_leaf |-> is_leaf]

\* ---- pager (allocate_page / free_page) ----
AllocId(st) == IF st.free # <<>> THEN Head(st.free) ELSE st.next
allocate_page(st) ==
  IF st.free # <<>>
  THEN [st EXCEPT !.free = Tail(@)]
  ELSE [st EXCEPT !.next = @ + 1]
free_page(st, page_id) ==
  IF st.status = "io" THEN st
  ELSE [st EXCEPT !.free = <<page_id>> \o @,
                  !.pages = [p \in (DOMAIN @) \ {page_id} |-> @[p]]]

load_node(st, page_id) == st.pages[page_id]
\* st.io is the number of node writes left until a write of the pager
\* fails (0: no write fails).  The failed write leaves the status "io",
\* and the ? after every call returns the error to the caller of the
\* operation: nothing is written after it.
save_node(st, node) ==
  IF st.status = "io" THEN st
  ELSE IF st.io = 1 THEN [st EXCEPT !.status = "io"]
  ELSE [st EXCEPT !.pages = (node.page_id :> node) @@ @,
                  !.io = IF @ = 0 THEN 0 ELSE @ - 1]

Panic(st) == IF st.status = "io" THEN st ELSE [st EXCEPT !.status = "panic"]
Fail(st) == [st EXCEPT !.status = "dup"]
\* ---- insert ----
\* let mut i = node.keys.len(); while i > 0 && key < &node.keys[i - 1] { i -= 1 }
RECURSIVE InsertPos(_, _, _)
InsertPos(keys, key, i) ==
  IF i > 0 /\ key < At(keys, i - 1) THEN InsertPos(keys, key, i - 1) ELSE i

\* split_child with the new sibling always created as a leaf
split_child_leaf(st, parent, index, child) ==
  LET new_page_id == AllocId(st)
      st1 == allocate_page(st)
      mid == MIN_KEYS
      new_node == [NewNode(new_page_id, TRUE) EXCEPT
                     !.keys = SplitOffTail(child.keys, mid + 1),
                     !.values = SplitOffTail(child.values, mid + 1)]
      child1 == [child EXCEPT
                     !.keys = SplitOffKeep(@, mid + 1),
                     !.values = SplitOffKeep(@, mid + 1),
                     !.children = IF child.is_leaf THEN @
                                  ELSE SplitOffKeep(@, mid + 1)]
      parent1 == [parent EXCEPT
                     !.keys = VecInsert(@, index, At(child1.keys, mid)),
                     !.values = VecInsert(@, index, At(child1.values, mid)),
                     !.children = VecInsert(@, index + 1, new_page_id)]
      child2 == [child1 EXCEPT !.keys = VecRemove(@, mid),
                               !.values = VecRemove(@, mid)]
  IN [st |-> save_node(save_node(save_node(st1, parent1), child2), new_node),
      parent |-> parent1]

\* split_child(parent, index, child): returns the store and the caller's
\* in-memory parent, which the source changes through &mut
split_child(st, parent, index, child) ==
  LET new_page_id == AllocId(st)
      st1 == allocate_page(st)
      mid == MIN_KEYS
      new_node == [NewNode(new_page_id, child.is_leaf) EXCEPT
                     !.keys = SplitOffTail(child.keys, mid + 1),
                     !.values = SplitOffTail(child.values, mid + 1),
                     !.children = IF child.is_leaf THEN <<>>
                                  ELSE SplitOffTail(child.children, mid + 1)]
      child1 == [child EXCEPT
                     !.keys = SplitOffKeep(@, mid + 1),
                     !.values = SplitOffKeep(@, mid + 1),
                     !.children = IF child.is_leaf THEN @
                                  ELSE SplitOffKeep(@, mid + 1)]
      parent1 == [parent EXCEPT
                     !.keys = VecInsert(@, index, At(child1.keys, mid)),
                     !.values = VecInsert(@, index, At(child1.values, mid)),
                     !.children = VecInsert(@, index + 1, new_page_id)]
      child2 == [child1 EXCEPT !.keys = VecRemove(@, mid),
                               !.values = VecRemove(@, mid)]
  IN [st |-> save_node(save_node(save_node(st1, parent1), child2), new_node),
      parent |-> parent1]

RECURSIVE insert_non_full(_, _, _, _)
insert_non_full(st, node, key, value) ==
  LET i == InsertPos(node.keys, key, Len(node.keys))
  IN IF node.is_leaf
     THEN IF unique /\ i > 0 /\ key = At(node.keys, i - 1)
          THEN Fail(st)
          ELSE save_node(st, [node EXCEPT !.keys = VecInsert(@, i, key),
                                          !.values = VecInsert(@, i, value)])
     ELSE LET child == load_node(st, At(node.children, i))
          IN IF Len(child.keys) = MAX_KEYS
             THEN LET sp == split_child(st, node, i, child)
                      i2 == IF key > At(sp.parent.keys, i) THEN i + 1 ELSE i
                      child2 == load_node(sp.st, At(sp.parent.children, i2))
                  IN IF sp.st.status = "io" THEN sp.st
                     ELSE insert_non_full(sp.st, child2, key, value)
             ELSE insert_non_full(st, child, key, value)

\* insert splitting a root that still has room for two keys
insert_loaded_early(st, root, key, value) ==
     IF Len(root.keys) >= MAX_KEYS - 2
     THEN LET new_root_id == AllocId(st)
              st1 == allocate_page(st)
              new_root == [NewNode(new_root_id, FALSE) EXCEPT
                             !.children = <<st.root>>]
              sp == split_child(st1, new_root, 0, root)
              st2 == [sp.st EXCEPT !.root = new_root_id]
          IN IF sp.st.status = "io" THEN sp.st
             ELSE insert_non_full(st2, sp.parent, key, value)
     ELSE insert_non_full(st, root, key, value)

\* insert after its first line, root being the node that line has loaded
insert_loaded(st, root, key, value) ==
     IF Len(root.keys) = MAX_KEYS
     THEN LET new_root_id == AllocId(st)
              st1 == allocate_page(st)
              new_root == [NewNode(new_root_id, FALSE) EXCEPT
                             !.children = <<st.root>>]
              sp == split_child(st1, new_root, 0, root)
              st2 == [sp.st EXCEPT !.root = new_root_id]
          IN IF sp.st.status = "io" THEN sp.st
             ELSE insert_non_full(st2, sp.parent, key, value)
     ELSE insert_non_full(st, root, key, value)

insert(st, key, value) ==
  insert_loaded(st, load_node(st, st.root), key, value)

\* ---- search, range_scan, height ----
\* let mut i = 0; while i < node.keys.len() && key > &node.keys[i] { i += 1 }
RECURSIVE SearchPos(_, _, _)
SearchPos(keys, key, i) ==
  IF i < Len(keys) /\ key > At(keys, i) THEN SearchPos(keys, key, i + 1) ELSE i

RECURSIVE search_node(_, _, _)
search_node(st, page_id, key) ==
  LET node == load_node(st, page_id)
      i == SearchPos(node.keys, key, 0)
  IN IF i < Len(node.keys) /\ key = At(node.keys, i) THEN At(node.values, i)
     ELSE IF node.is_leaf THEN NoVal
     ELSE search_node(st, At(node.children, i), key)

search(st, key) == search_node(st, st.root, key)

RECURSIVE height_from(_, _)
height_from(st, node) ==
  IF node.is_leaf THEN 1
  ELSE 1 + height_from(st, load_node(st, At(node.children, 0)))

height(st) == height_from(st, load_node(st, st.root))
\* let mut i = 0; while i < node.keys.len() && &node.keys[i] < start { i += 1 }
RECURSIVE ScanPos(_, _, _)
ScanPos(keys, start, i) ==
  IF i < Len(keys) /\ At(keys, i) < start THEN ScanPos(keys, start, i + 1) ELSE i

RECURSIVE range_scan_node(_, _, _, _, _)
RECURSIVE range_scan_loop(_, _, _, _, _, _)
\* the second while loop of range_scan_node, from index i on
range_scan_loop(st, node, i, start, end, results) ==
  IF i < Len(node.keys) /\ At(node.keys, i) < end
  THEN LET r1 == Append(results, <<At(node.keys, i), At(node.values, i)>>)
           i1 == i + 1
           r2 == IF ~node.is_leaf /\ i1 < Len(node.children)
                 THEN range_scan_node(st, At(node.children, i1), start, end, r1)
                 ELSE r1
       IN range_scan_loop(st, node, i1, start, end, r2)
  ELSE results

range_scan_node(st, page_id, start, end, results) ==
  LET node == load_node(st, page_id)
      i == ScanPos(node.keys, start, 0)
      r1 == IF ~node.is_leaf
            THEN range_scan_node(st, At(node.children, i), start, end, results)
            ELSE results
  IN range_scan_loop(st, node, i, start, end, r1)

range_scan(st, start, end) == range_scan_node(st, st.root, start, end, <<>>)

\* ---- delete ----
RECURSIVE rightmost_leaf(_, _)
rightmost_leaf(st, current) ==
  IF current.is_leaf THEN current
  ELSE rightmost_leaf(st, load_node(st, At(current.children,
                                            Len(current.children) - 1)))

\* get_predecessor(node, index): the last entry of the rightmost leaf under
\* children[index]; indexing keys[len - 1] of an empty leaf panics
get_predecessor(st, node, index) ==
  LET current == rightmost_leaf(st, load_node(st, At(node.children, index)))
  IN IF Len(current.keys) = 0
     THEN [panic |-> TRUE, key |-> NoVal, value |-> NoVal]
     ELSE [panic |-> FALSE,
           key |-> At(current.keys, Len(current.keys) - 1),
           value |-> At(current.values, Len(current.values) - 1)]

\* rotate_left that moves the key but not the child pointer
rotate_left_keys_only(st, parent, index) ==
  LET left == load_node(st, At(parent.children, index))
      right == load_node(st, At(parent.children, index + 1))
      left1 == [left EXCEPT
                  !.keys = Append(@, At(parent.keys, index)),
                  !.values = Append(@, At(parent.values, index))]
      parent1 == [parent EXCEPT
                  !.keys = VecSet(@, index, At(right.keys, 0)),
                  !.values = VecSet(@, index, At(right.values, 0))]
      right1 == [right EXCEPT
                  !.keys = VecRemove(@, 0),
                  !.values = VecRemove(@, 0)]
  IN save_node(save_node(save_node(st, parent1), left1), right1)

rotate_left(st, parent, index) ==
  LET left == load_node(st, At(parent.children, index))
      right == load_node(st, At(parent.children, index + 1))
      left1 == [left EXCEPT
                  !.keys = Append(@, At(parent.keys, index)),
                  !.values = Append(@, At(parent.values, index)),
                  !.children = IF left.is_leaf THEN @
                               ELSE Append(@, At(right.children, 0))]
      parent1 == [parent EXCEPT
                  !.keys = VecSet(@, index, At(right.keys, 0)),
                  !.values = VecSet(@, index, At(right.values, 0))]
      right1 == [right EXCEPT
                  !.keys = VecRemove(@, 0),
                  !.values = VecRemove(@, 0),
                  !.children = IF left.is_leaf THEN @ ELSE VecRemove(@, 0)]
  IN save_node(save_node(save_node(st, parent1), left1), right1)

rotate_right(st, parent, index) ==
  LET left == load_node(st, At(parent.children, index))
      right == load_node(st, At(parent.children, index + 1))
      right1 == [right EXCEPT
                  !.keys = VecInsert(@, 0, At(parent.keys, index)),
                  !.values = VecInsert(@, 0, At(parent.values, index)),
                  !.children = IF right.is_leaf THEN @
                               ELSE VecInsert(@, 0, At(left.children,
                                                   Len(left.children) - 1))]
      parent1 == [parent EXCEPT
                  !.keys = VecSet(@, index, At(left.keys, Len(left.keys) - 1)),
                  !.values = VecSet(@, index,
                                    At(left.values, Len(left.values) - 1))]
      left1 == [left EXCEPT
                  !.keys = SplitOffKeep(@, Len(@) - 1),
                  !.values = SplitOffKeep(@, Len(@) - 1),
                  !.children = IF right.is_leaf THEN @
                               ELSE SplitOffKeep(@, Len(@) - 1)]
  IN save_node(save_node(save_node(st, parent1), left1), right1)

\* merge_nodes(parent, index): loading parent.children[index + 1] panics
\* when the parent has no child at index + 1
merge_nodes(st, parent, index) ==
  IF index + 1 >= Len(parent.children) THEN Panic(st)
  ELSE
  LET left == load_node(st, At(parent.children, index))
      right == load_node(st, At(parent.children, index + 1))
      left1 == [left EXCEPT
                  !.keys = Append(@, At(parent.keys, index)) \o right.keys,
                  !.values = Append(@, At(parent.values, index)) \o right.values,
                  !.children = IF left.is_leaf THEN @ ELSE @ \o right.children]
      parent1 == [parent EXCEPT
                  !.keys = VecRemove(@, index),
                  !.values = VecRemove(@, index),
                  !.children = VecRemove(@, index + 1)]
  IN free_page(save_node(save_node(st, parent1), left1), right.page_id)

rebalance(st, parent, child_index) ==
  IF child_index > 0
     /\ Len(load_node(st, At(parent.children, child_index - 1)).keys) > MIN_KEYS
  THEN rotate_right(st, parent, child_index - 1)
  ELSE IF child_index < Len(parent.children) - 1
          /\ Len(load_node(st, At(parent.children, child_index + 1)).keys)
               > MIN_KEYS
  THEN rotate_left(st, parent, child_index)
  ELSE IF child_index > 0
  THEN merge_nodes(st, parent, child_index - 1)
  ELSE merge_nodes(st, parent, child_index)

RECURSIVE delete_key(_, _, _)
delete_key(st, page_id, key) ==
  LET node == load_node(st, page_id)
      i == SearchPos(node.keys, key, 0)
      found == i < Len(node.keys) /\ key = At(node.keys, i)
  IN IF node.is_leaf
     THEN IF found
          THEN save_node(st, [node EXCEPT !.keys = VecRemove(@, i),
                                          !.values = VecRemove(@, i)])
          ELSE st
     ELSE IF found
          THEN LET predecessor == get_predecessor(st, node, i)
                   node1 == [node EXCEPT
                               !.keys = VecSet(@, i, predecessor.key),
                               !.values = VecSet(@, i, predecessor.value)]
               IN IF predecessor.panic THEN Panic(st)
                  ELSE delete_key(save_node(st, node1), At(node.children, i),
                                  predecessor.key)
          ELSE LET st1 == delete_key(st, At(node.children, i), key)
               IN IF st1.status # "ok" THEN st1
                  ELSE IF Len(load_node(st1, At(node.children, i)).keys)
                            < MIN_KEYS
                  THEN rebalance(st1, node, i)
                  ELSE st1

delete(st, key) == delete_key(st, st.root, key)
\* ---- the tree as a state machine ----
Store == [root |-> root_page_id, pages |-> pages, free |-> free_list,
          next |-> next_page_num, status |-> "ok", dirty |-> dirty_nodes,
          io |-> 0]

\* in-order listing of the <<key, value>> entries below page_id
RECURSIVE TreeEntries(_, _)
RECURSIVE EntriesFrom(_, _, _)
EntriesFrom(st, node, i) ==
  IF i >= Len(node.keys) THEN <<>>
  ELSE <<<<At(node.keys, i), At(node.values, i)>>>>
       \o (IF node.is_leaf \/ i + 1 >= Len(node.children) THEN <<>>
           ELSE TreeEntries(st, At(node.children, i + 1)))
       \o EntriesFrom(st, node, i + 1)
TreeEntries(st, page_id) ==
  LET node == load_node(st, page_id)
  IN (IF node.is_leaf \/ Len(node.children) = 0 THEN <<>>
      ELSE TreeEntries(st, At(node.children, 0)))
     \o EntriesFrom(st, node, 0)

Range(s) == {s[j] : j \in 1..Len(s)}

\* ======================================================================
\* Buffer pool (src/src/storage/buffer_pool.rs) and page images
\* (src/src/storage/page.rs)
\* ======================================================================
PAGE_SIZE == 4096
PAGE_HEADER_SIZE == 64

\* A page image is kept in blocks of PAGE_HEADER_SIZE bytes: block 0 holds
\* the header, blocks 1 .. NumBlocks - 1 the slot array and the records.
\* An image is the sequence of its blocks up to the last block that is not
\* all zero.
NumBlocks == PAGE_SIZE \div PAGE_HEADER_SIZE
ZeroBlock == [kind |-> "zero", v |-> 0, fso |-> 0]
\* the header written by Page::new: page_id and free_space_offset, all
\* other fields 0
HeaderBlock(page_num, free_space_offset) ==
  [kind |-> "header", v |-> page_num, fso |-> free_space_offset]
\* a block of bytes written by a client
RawBlock == [kind |-> "raw", v |-> 1, fso |-> 0]
Min(a, b) == IF a <= b THEN a ELSE b

\* Page::new(id, data) for a buffer of PAGE_SIZE bytes: a zeroed page gets
\* a new header, then the first PAGE_SIZE - PAGE_HEADER_SIZE bytes of the
\* buffer are copied behind the header
PageNew(id, data) ==
  LET len == Min(PAGE_SIZE, PAGE_SIZE - PAGE_HEADER_SIZE)
  IN [id |-> id,
      data |-> <<HeaderBlock(id, PAGE_HEADER_SIZE + len)>>
               \o SubSeq(data, 1, Min(Len(data), len \div PAGE_HEADER_SIZE))]

\* Page::write_at for one whole block at offset b * PAGE_HEADER_SIZE
write_at(page, b, block) ==
  LET padded == page.data \o [j \in 1..(b + 1 - Len(page.data)) |-> ZeroBlock]
  IN [page EXCEPT !.data = [padded EXCEPT ![b + 1] = block]]

\* ---- the pool ----
\* A pool record bp carries the fields of BufferPool (max_pages, pages,
\* lru, stats), what the pool acts on (the page buffers behind the
\* Arc<RwLock<Page>> handles, the file) and the outcome of the running
\* call (res, and the buffer handed back by get_page).  stamps holds the
\* PageIds of the entries in the order of their last_accessed instants,
\* oldest first.  lru is the LruCache, least recently used first.
NoHandle == 0
\* a call of get_page that has not read its page yet carries NoPage
NoPage == [id |-> 0, data |-> <<>>]

Without(s, x) == SelectSeq(s, LAMBDA y : y # x)
Touch(order, page_id) == Without(order, page_id) \o <<page_id>>
Drop(m, k) == [j \in (DOMAIN m) \ {k} |-> m[j]]

\* LruCache::pop_lru and LruCache::put for a cache of capacity cap
pop_lru(cache) == Tail(cache)
lru_put(cache, cap, k) ==
  IF k \in Range(cache) THEN Touch(cache, k)
  ELSE IF Len(cache) >= cap THEN Tail(cache) \o <<k>>
  ELSE cache \o <<k>>

\* the id of a new Arc<RwLock<Page>>: any id not in use
NewBuffer(bp) ==
  CHOOSE b \in 1..(Cardinality(DOMAIN bp.buffers) + 1) : b \notin DOMAIN bp.buffers

\* Page::flush of the page behind buffer buf, at the page's place in the
\* file; with bp.io the file rejects the write, and failed names the page
flush(bp, buf) ==
  LET page == bp.buffers[buf]
  IN IF bp.io THEN [bp EXCEPT !.res = "Io", !.failed = page.id]
     ELSE [bp EXCEPT !.disk = (page.id :> page.data) @@ @]

Err(bp, e) == [bp EXCEPT !.res = e]

\* load_page: read_exact fails past the end of the file
load_page(bp, page_id) ==
  IF page_id \in DOMAIN bp.disk
  THEN [res |-> "Ok", page |-> PageNew(page_id, bp.disk[page_id])]
  ELSE [res |-> "Io", page |-> NoPage]

\* get_page when the page is in the map
get_page_hit(bp, page_id) ==
  [bp EXCEPT !.pages[page_id].pin_count = @ + 1,
             !.stamps = Touch(@, page_id),
             !.stats.hit_count = @ + 1,
             !.handle = bp.pages[page_id].page]
\* get_page when it is not: count the miss; load_page and add_to_cache follow
get_page_miss(bp, page_id) ==
  [bp EXCEPT !.stats.miss_count = @ + 1]

pin_page(bp, page_id) ==
  IF page_id \in DOMAIN bp.pages
  THEN [bp EXCEPT !.pages[page_id].pin_count = @ + 1,
                  !.stamps = Touch(@, page_id)]
  ELSE Err(bp, "NotInPool")

unpin_page_unchecked(bp, page_id) ==
  IF page_id \in DOMAIN bp.pages
  THEN [bp EXCEPT !.pages[page_id].pin_count = @ - 1]
  ELSE Err(bp, "NotInPool")
unpin_page(bp, page_id) ==
  IF page_id \in DOMAIN bp.pages
  THEN IF bp.pages[page_id].pin_count > 0
       THEN [bp EXCEPT !.pages[page_id].pin_count = @ - 1]
       ELSE Err(bp, "NotPinned")
  ELSE Err(bp, "NotInPool")

mark_dirty(bp, page_id) ==
  IF page_id \in DOMAIN bp.pages
  THEN [bp EXCEPT !.pages[page_id].dirty = TRUE]
  ELSE Err(bp, "NotInPool")

\* the body of the loops of flush_page and flush_all
flush_entry(bp, page_id) ==
  LET flushed == flush(bp, bp.pages[page_id].page)
  IN IF ~bp.pages[page_id].dirty THEN bp
     ELSE IF flushed.res # "Ok" THEN flushed
     ELSE [flushed EXCEPT !.pages[page_id].dirty = FALSE]

flush_page(bp, page_id) ==
  IF page_id \in DOMAIN bp.pages
  THEN flush_entry(bp, page_id)
  ELSE Err(bp, "NotInPool")

RECURSIVE flush_each(_, _)
flush_each(bp, ids) ==
  IF ids = {} \/ bp.res # "Ok" THEN bp
  ELSE LET page_id == CHOOSE x \in ids : TRUE
       IN flush_each(flush_entry(bp, page_id), ids \ {page_id})
flush_all(bp) == flush_each(bp, DOMAIN bp.pages)

\* ---- add_to_cache ----
\* while pages.len() >= self.max_pages
pool_never_full(bp) == FALSE
pool_full(bp) == Cardinality(DOMAIN bp.pages) >= bp.max_pages
\* if entry.pin_count == 0
evictable_any(entry) == TRUE
evictable(entry) == entry.pin_count = 0

RECURSIVE evict_loop(_)
evict_loop(bp) ==
  IF ~pool_full(bp) THEN bp
  ELSE IF bp.lru = <<>> THEN Err(bp, "NoEviction")
  ELSE LET evict_id == Head(bp.lru)
           popped == [bp EXCEPT !.lru = pop_lru(@)]
       IN IF evict_id \in DOMAIN bp.pages /\ evictable(bp.pages[evict_id])
          THEN LET entry == bp.pages[evict_id]
                   flushed == IF entry.dirty THEN flush(popped, entry.page)
                              ELSE popped
               IN IF flushed.res # "Ok" THEN flushed
                  ELSE evict_loop([flushed EXCEPT
                                     !.pages = Drop(@, evict_id),
                                     !.stamps = Without(@, evict_id),
                                     !.stats.eviction_count = @ + 1])
          ELSE evict_loop(popped)

add_to_cache(bp, page_id, page) ==
  LET ev == evict_loop(bp)
      buf == NewBuffer(ev)
      entry == [page |-> buf, dirty |-> FALSE, pin_count |-> 1]
  IN IF ev.res # "Ok" THEN ev
     ELSE [ev EXCEPT !.buffers = (buf :> page) @@ @,
                     !.pages = (page_id :> entry) @@ @,
                     !.stamps = Touch(@, page_id),
                     !.lru = lru_put(@, bp.max_pages, page_id),
                     !.handle = buf]

\* get_page as one task runs it from its call to its return
get_page(bp, page_id) ==
  LET missed == get_page_miss(bp, page_id)
      loaded_page == load_page(missed, page_id)
  IN IF page_id \in DOMAIN bp.pages THEN get_page_hit(bp, page_id)
     ELSE IF loaded_page.res # "Ok" THEN Err(missed, loaded_page.res)
     ELSE add_to_cache(missed, page_id, loaded_page.page)

\* the calls of get_page of one operation of the tree, one for each
\* load_node and save_node, up to the first that fails
RECURSIVE get_pages(_, _)
get_pages(bp, path) ==
  IF path = <<>> \/ bp.res # "Ok" THEN bp
  ELSE get_pages(get_page(bp, Head(path)), Tail(path))

\* ---- construction ----
\* ======================================================================
\* Page: the slotted record page of page.rs at the level of its bytes.
\* Page.data is a vector of PAGE_SIZE bytes, all zero at construction; it
\* is kept as the function from the offsets of its nonzero bytes to these
\* bytes.  A u16 or u64 is the number, the u32 checksum is kept as its four
\* little-endian bytes.  Every method gives the page it leaves behind, its
\* Result (res: "Ok", "Err", or "panic" for a slice index out of range and
\* for an arithmetic overflow) and the value inside Ok (val).
\* ======================================================================
SLOT_SIZE == 8

\* the () of Result<(), Error>
Unit == 0 - 1

Byte(data, o) == IF o \in DOMAIN data THEN data[o] ELSE 0

\* &data[offset..offset + len]
Slice(data, offset, len) == [i \in 1..len |-> Byte(data, offset + i - 1)]

\* data[offset..offset + bytes.len()].copy_from_slice(bytes)
copy_from_slice(data, offset, bytes) ==
  LET span == offset..(offset + Len(bytes) - 1)
      nonzero == {o \in span : bytes[o - offset + 1] # 0}
  IN [o \in ((DOMAIN data) \ span) \cup nonzero |->
        IF o \in span THEN bytes[o - offset + 1] ELSE data[o]]

RECURSIVE to_le_bytes(_, _)
to_le_bytes(n, width) ==
  IF width = 0 THEN <<>>
  ELSE <<n % 256>> \o to_le_bytes(n \div 256, width - 1)

RECURSIVE from_le_bytes(_)
from_le_bytes(bytes) ==
  IF Len(bytes) = 0 THEN 0
  ELSE bytes[1] + 256 * from_le_bytes([i \in 1..(Len(bytes) - 1) |-> bytes[i + 1]])

SetHeader(p, offset, bytes) ==
  [p EXCEPT !.data = copy_from_slice(@, offset, bytes), !.dirty = TRUE]

set_page_id(p, id) == SetHeader(p, 0, to_le_bytes(id, 8))
set_prev_page(p, id) == SetHeader(p, 8, to_le_bytes(id, 8))
set_next_page(p, id) == SetHeader(p, 16, to_le_bytes(id, 8))
get_free_space_offset(p) == from_le_bytes(Slice(p.data, 24, 2))
set_free_space_offset(p, offset) == SetHeader(p, 24, to_le_bytes(offset, 2))
get_slot_count(p) == from_le_bytes(Slice(p.data, 26, 2))
set_slot_count(p, count) == SetHeader(p, 26, to_le_bytes(count, 2))
get_checksum(p) == Slice(p.data, 28, 4)
set_checksum(p, checksum) == SetHeader(p, 28, checksum)
set_flags(p, flags) == SetHeader(p, 32, <<flags>>)
\* PageType::Data = 0
set_page_type(p, page_type) == SetHeader(p, 33, <<page_type>>)

\* a ^ b on bytes, and on the four bytes of a u32
RECURSIVE xor_byte(_, _)
xor_byte(a, b) ==
  IF a = 0 THEN b
  ELSE IF b = 0 THEN a
  ELSE ((a + b) % 2) + 2 * xor_byte(a \div 2, b \div 2)

xor(a, b) == [j \in 1..4 |-> xor_byte(a[j], b[j])]

\* the fold of ^ over data.chunks(4): PAGE_SIZE is a multiple of 4, so every
\* chunk has 4 bytes; a chunk of zero bytes leaves the accumulator as it
\* is, so the fold visits the chunks that hold a nonzero byte
RECURSIVE xor_chunks(_, _, _)
xor_chunks(data, chunks, checksum) ==
  IF chunks = {} THEN checksum
  ELSE LET c == CHOOSE x \in chunks : TRUE
       IN xor_chunks(data, chunks \ {c}, xor(checksum, Slice(data, 4 * c, 4)))

Chunks(data) == {o \div 4 : o \in DOMAIN data}

\* the loop reads the stored checksum with the rest of the page
update_checksum(p) ==
  set_checksum(p, xor_chunks(p.data, Chunks(p.data), <<0, 0, 0, 0>>))

verify_checksum(p) ==
  LET stored == get_checksum(p)
      data == copy_from_slice(p.data, 28, <<0, 0, 0, 0>>)
  IN stored = xor_chunks(data, Chunks(data), <<0, 0, 0, 0>>)

Page_new(id, init) ==
  LET p0 == [id |-> id, data |-> <<>>, dirty |-> FALSE]
      p1 == set_flags(set_page_type(set_slot_count(set_free_space_offset(
              set_next_page(set_prev_page(set_page_id(p0, id), 0), 0),
              PAGE_HEADER_SIZE), 0), 0), 0)
      len == Min(Len(init), PAGE_SIZE - PAGE_HEADER_SIZE)
      p2 == IF Len(init) # 0
            THEN set_free_space_offset(
                   [p1 EXCEPT !.data = copy_from_slice(@, PAGE_HEADER_SIZE,
                                                       SubSeq(init, 1, len))],
                   PAGE_HEADER_SIZE + len)
            ELSE p1
  IN update_checksum(p2)

Page_read_at(p, offset, len) ==
  IF offset + len > PAGE_SIZE THEN [res |-> "Err", val |-> <<>>]
  ELSE [res |-> "Ok", val |-> Slice(p.data, offset, len)]

Page_write_at(p, offset, bytes) ==
  IF offset + Len(bytes) > PAGE_SIZE THEN [page |-> p, res |-> "Err"]
  ELSE [page |-> [p EXCEPT !.data = copy_from_slice(@, offset, bytes),
                           !.dirty = TRUE],
        res |-> "Ok"]

NoSlot == [offset |-> 0, length |-> 0]

read_slot(p, slot_id) ==
  LET offset == PAGE_HEADER_SIZE + slot_id * SLOT_SIZE
  IN IF slot_id >= get_slot_count(p) THEN [res |-> "Err", slot |-> NoSlot]
     ELSE IF offset + 4 > PAGE_SIZE THEN [res |-> "panic", slot |-> NoSlot]
     ELSE [res |-> "Ok",
           slot |-> [offset |-> from_le_bytes(Slice(p.data, offset, 2)),
                     length |-> from_le_bytes(Slice(p.data, offset + 2, 2))]]

write_slot(p, slot_id, slot) ==
  LET offset == PAGE_HEADER_SIZE + slot_id * SLOT_SIZE
  IN IF slot_id > get_slot_count(p) THEN [page |-> p, res |-> "Err"]
     ELSE IF offset + 4 > PAGE_SIZE THEN [page |-> p, res |-> "panic"]
     ELSE [page |-> SetHeader(SetHeader(p, offset, to_le_bytes(slot.offset, 2)),
                              offset + 2, to_le_bytes(slot.length, 2)),
           res |-> "Ok"]

\* PAGE_SIZE - free_space_offset - slot_array_size on usize; a negative
\* number here is the overflow of the subtraction: a panic in a build with
\* overflow checks, and otherwise the number plus 2^64, which is above
\* every length
get_free_space(p) ==
  PAGE_SIZE - get_free_space_offset(p) - get_slot_count(p) * SLOT_SIZE

insert_record_no_slot(p, bytes, overflow_checks) ==
  LET required_space == Len(bytes)
      free_space == get_free_space(p)
      free_space_offset == get_free_space_offset(p)
      slot_count == get_slot_count(p)
      w == Page_write_at(p, free_space_offset, bytes)
      s == write_slot(w.page, slot_count,
                      [offset |-> free_space_offset, length |-> Len(bytes)])
  IN IF free_space < 0 /\ overflow_checks
       THEN [page |-> p, res |-> "panic", val |-> Unit]
     ELSE IF free_space >= 0 /\ required_space > free_space
       THEN [page |-> p, res |-> "Err", val |-> Unit]
     ELSE IF w.res # "Ok" THEN [page |-> w.page, res |-> w.res, val |-> Unit]
     ELSE IF s.res # "Ok" THEN [page |-> s.page, res |-> s.res, val |-> Unit]
     ELSE [page |-> update_checksum(set_slot_count(
                      set_free_space_offset(s.page, free_space_offset + Len(bytes)),
                      slot_count + 1)),
           res |-> "Ok", val |-> slot_count]

insert_record(p, bytes, overflow_checks) ==
  LET required_space == Len(bytes) + SLOT_SIZE
      free_space == get_free_space(p)
      free_space_offset == get_free_space_offset(p)
      slot_count == get_slot_count(p)
      w == Page_write_at(p, free_space_offset, bytes)
      s == write_slot(w.page, slot_count,
                      [offset |-> free_space_offset, length |-> Len(bytes)])
  IN IF free_space < 0 /\ overflow_checks
       THEN [page |-> p, res |-> "panic", val |-> Unit]
     ELSE IF free_space >= 0 /\ required_space > free_space
       THEN [page |-> p, res |-> "Err", val |-> Unit]
     ELSE IF w.res # "Ok" THEN [page |-> w.page, res |-> w.res, val |-> Unit]
     ELSE IF s.res # "Ok" THEN [page |-> s.page, res |-> s.res, val |-> Unit]
     ELSE [page |-> update_checksum(set_slot_count(
                      set_free_space_offset(s.page, free_space_offset + Len(bytes)),
                      slot_count + 1)),
           res |-> "Ok", val |-> slot_count]

read_record(p, slot_id) ==
  LET r == read_slot(p, slot_id)
  IN IF r.res # "Ok" THEN [res |-> r.res, val |-> <<>>]
     ELSE Page_read_at(p, r.slot.offset, r.slot.length)

delete_record(p, slot_id) ==
  LET r == read_slot(p, slot_id)
      w == write_slot(p, slot_id, [offset |-> 0, length |-> 0])
  IN IF r.res # "Ok" THEN [page |-> p, res |-> r.res, val |-> Unit]
     ELSE IF w.res # "Ok" THEN [page |-> w.page, res |-> w.res, val |-> Unit]
     ELSE [page |-> update_checksum(w.page), res |-> "Ok", val |-> Unit]

\* the relocating branch binds the new slot id to new_slot and returns Ok(())
update_record(p, slot_id, bytes, overflow_checks) ==
  LET r == read_slot(p, slot_id)
      w == Page_write_at(p, r.slot.offset, bytes)
      new_slot == insert_record(p, bytes, overflow_checks)
      d == delete_record(new_slot.page, slot_id)
  IN IF r.res # "Ok" THEN [page |-> p, res |-> r.res, val |-> Unit]
     ELSE IF Len(bytes) <= r.slot.length
       THEN IF w.res # "Ok" THEN [page |-> w.page, res |-> w.res, val |-> Unit]
            ELSE [page |-> update_checksum(w.page), res |-> "Ok", val |-> Unit]
     ELSE IF new_slot.res # "Ok"
       THEN [page |-> new_slot.page, res |-> new_slot.res, val |-> Unit]
     ELSE IF d.res # "Ok" THEN d
     ELSE [page |-> update_checksum(d.page), res |-> "Ok", val |-> Unit]

\* the loop of compact over slot_id in 0..slot_count: the slots are written
\* into self.data, the records are copied into new_data
RECURSIVE compact_loop(_, _, _, _, _)
compact_loop(p, new_data, new_offset, slot_id, slot_count) ==
  IF slot_id >= slot_count
    THEN [page |-> p, new_data |-> new_data, new_offset |-> new_offset, res |-> "Ok"]
  ELSE
    LET r == read_slot(p, slot_id)
        data == Page_read_at(p, r.slot.offset, r.slot.length)
        w == write_slot(p, slot_id, [offset |-> new_offset, length |-> r.slot.length])
        stop(q, res) == [page |-> q, new_data |-> new_data,
                         new_offset |-> new_offset, res |-> res]
    IN IF r.res # "Ok" THEN stop(p, r.res)
       ELSE IF r.slot.length > 0
         THEN IF data.res # "Ok" THEN stop(p, data.res)
              ELSE IF new_offset + Len(data.val) > PAGE_SIZE THEN stop(p, "panic")
              ELSE IF w.res # "Ok" THEN stop(w.page, w.res)
              ELSE compact_loop(w.page,
                                copy_from_slice(new_data, new_offset, data.val),
                                new_offset + Len(data.val), slot_id + 1, slot_count)
       ELSE compact_loop(p, new_data, new_offset, slot_id + 1, slot_count)

compact(p) ==
  LET header == Slice(p.data, 0, PAGE_HEADER_SIZE)
      l == compact_loop(p, copy_from_slice(<<>>, 0, header), PAGE_HEADER_SIZE,
                        0, get_slot_count(p))
  IN IF l.res # "Ok" THEN [page |-> l.page, res |-> l.res, val |-> Unit]
     ELSE [page |-> update_checksum(set_free_space_offset(
                      [l.page EXCEPT !.data = l.new_data], l.new_offset)),
           res |-> "Ok", val |-> Unit]

\* ======================================================================
\* Table: the heap of rows over slotted pages (table.rs).  A table value
\* carries its pages as the buffer pool holds them and its TableStats.
\* page_num is a u64, a residue modulo 2^64: u64::MAX is written as the
\* residue -1.  The rows of the model have new primary keys, so the index
\* updates of insert cannot fail and are left out.
\* ======================================================================
U64_MAX == 0 - 1

\* buffer_pool.put_page(page_id, page)
put_page(tb, page_id, p) == [tb EXCEPT !.pages = (page_id :> p) @@ @]

\* A u64 in the row id computations is the sequence of its four 16-bit
\* limbs, the lowest first: the shifts of make_row_id and split_row_id are
\* by whole limbs, and a limb shifted beyond the fourth is lost.
RECURSIVE bitor(_, _)
bitor(a, b) ==
  IF a = 0 THEN b
  ELSE IF b = 0 THEN a
  ELSE (IF a % 2 = 1 \/ b % 2 = 1 THEN 1 ELSE 0) + 2 * bitor(a \div 2, b \div 2)

U64(n) ==
  IF n = U64_MAX THEN <<65535, 65535, 65535, 65535>>
  ELSE <<n % 65536, (n \div 65536) % 65536, 0, 0>>
PageId_new(file_id, page_num) == [file_id |-> file_id, page_num |-> page_num]

\* ((file_id as u64) << 48) | ((page_num as u64) << 16) | (slot_id as u64)
make_row_id(page_id, slot_id) ==
  LET f == page_id.file_id
      n == page_id.page_num
  IN <<slot_id, n[1], n[2], bitor(f[1], n[3])>>

\* file_id = (row_id >> 48) as u32, page_num = ((row_id >> 16) & 0xFFFFFFFF)
\* as u32, slot_id = (row_id & 0xFFFF) as u16
split_row_id(row_id) ==
  [page_id |-> PageId_new(<<row_id[4], 0, 0, 0>>, <<row_id[2], row_id[3], 0, 0>>),
   slot_id |-> row_id[1]]

\* stats.page_count - 1 overflows when page_count is 0: a panic in a build
\* with overflow checks, u64::MAX without; get_page of a page that is not
\* in the file is an error
find_page_for_row(tb, row_size, overflow_checks) ==
  LET wraps == tb.stats.page_count = 0
      last_page_id == IF wraps THEN U64_MAX ELSE tb.stats.page_count - 1
      new_page_id == tb.stats.page_count
      free_space == get_free_space(tb.pages[last_page_id])
      stop(res) == [tb |-> tb, res |-> res, page_id |-> 0]
  IN IF wraps /\ overflow_checks THEN stop("panic")
     ELSE IF last_page_id \notin DOMAIN tb.pages THEN stop("Err")
     ELSE IF free_space < 0 /\ overflow_checks THEN stop("panic")
     ELSE IF free_space < 0 \/ free_space >= row_size
       THEN [tb |-> tb, res |-> "Ok", page_id |-> last_page_id]
     ELSE [tb |-> put_page([tb EXCEPT !.stats.page_count = @ + 1],
                           new_page_id, Page_new(new_page_id, <<>>)),
           res |-> "Ok", page_id |-> new_page_id]

Table_insert(tb, row_data, overflow_checks) ==
  LET f == find_page_for_row(tb, Len(row_data), overflow_checks)
      r == insert_record(f.tb.pages[f.page_id], row_data, overflow_checks)
  IN IF f.res # "Ok" THEN [tb |-> f.tb, res |-> f.res, val |-> Unit]
     ELSE IF r.res # "Ok"
       THEN [tb |-> put_page(f.tb, f.page_id, r.page), res |-> r.res, val |-> Unit]
     ELSE [tb |-> [put_page(f.tb, f.page_id, r.page) EXCEPT !.stats.row_count = @ + 1],
           res |-> "Ok",
           val |-> make_row_id(PageId_new(U64(0), U64(f.page_id)), r.val)]

\* Table::create: the root page is put into the pool, the statistics are
\* TableStats::default()
TableCreate ==
  /\ table_pages = (0 :> Page_new(0, <<>>))
  /\ table_stats = [row_count |-> 0, page_count |-> 0]
  /\ table_call = [op |-> "create", len |-> 0, res |-> "Ok", val |-> Unit]
  /\ table_calls = 0

\* the pool of test_page_eviction
max_pages == 2
\* the file has one page more than the pool holds: with every page of the
\* file asked for, the pool has to evict
NumPoolPages == max_pages + 1

\* BufferPool::new(max_pages) over a file of NumPoolPages zeroed pages; calls
\* is the bag of the calls of get_page in flight: where each stands (pc),
\* the page asked for, the page read by load_page
PoolNew ==
  /\ pool_pages = <<>>
  /\ lru = <<>>
  /\ stats = [hit_count |-> 0, miss_count |-> 0, eviction_count |-> 0]
  /\ stamps = <<>>
  /\ buffers = <<>>
  /\ disk = [p \in 0..(NumPoolPages - 1) |-> <<>>]
  /\ calls = EmptyBag
  /\ handles = <<>>
  /\ pool_result = "Ok"
  /\ evicted = <<>>
  /\ pool_calls = 0
  /\ asked = 0

\* BTree::create: one page, an empty leaf root; nothing of it is in the file
TreeCreate ==
  /\ root_page_id = 1
  /\ pages = (1 :> NewNode(1, TRUE))
  /\ free_list = <<>>
  /\ next_page_num = 2
  /\ result = "ok"
  /\ expected = <<>>
  /\ ops = 0
  /\ loaded = 0
  /\ descending = FALSE
  /\ dirty_nodes = {}
  /\ disk_nodes = <<>>

\* no Page object exists yet
NoRecordPage ==
  /\ slotted = [id |-> 0, data |-> <<>>, dirty |-> FALSE]
  /\ recs = <<>>
  /\ page_call = [op |-> "none"]
  /\ page_ops = 0

\* the tasks of test_concurrent_access, spawned and not yet run
Tasks == 1..NumTasks
\* the keys of the tasks lie between the keys of the fill
TaskKey(t) == 2 * t + 1
TaskValue(t) == t

NoTasks ==
  /\ rwlock = [writer |-> 0, readers |-> {}]
  /\ task_pc = [t \in Tasks |-> "spawned"]
  /\ task_root = [t \in Tasks |-> NewNode(0, TRUE)]
  /\ task_value = [t \in Tasks |-> NoVal]

LatchTasks == 1..NumLatchTasks
Unlocked == [writer |-> 0, readers |-> {}]

\* one page is cached, clean, and a handle to it is out; no task has called
NoLatches ==
  /\ latches = [pages |-> Unlocked, entry |-> Unlocked, page |-> Unlocked,
                stats |-> Unlocked, dirty |-> FALSE]
  /\ latch_pc = [t \in LatchTasks |-> "spawned"]

Init == TreeCreate /\ PoolNew /\ NoRecordPage /\ NoTasks /\ TableCreate /\ NoLatches

CommitTree(st) ==
  /\ root_page_id' = st.root
  /\ pages' = st.pages
  /\ free_list' = st.free
  /\ next_page_num' = st.next
  /\ result' = st.status
  /\ dirty_nodes' = st.dirty

Commit(st) == CommitTree(st) /\ UNCHANGED <<disk_nodes, pvars, xvars>>

\* expected maps each key to the value of its last insert that returned Ok,
\* until delete is called for the key
Expected(k) == IF k \in DOMAIN expected THEN expected[k] ELSE NoVal
ExpectedNext(k) == IF k \in DOMAIN expected' THEN expected'[k] ELSE NoVal

\* one call of BTree::insert(k, v)
DoInsert(k) ==
  LET v == RowIdFor(k, search(Store, k) # NoVal)
      st == insert(Store, k, v)
  IN /\ Commit(st)
     /\ expected' = IF st.status = "ok" THEN (k :> v) @@ expected
                    ELSE expected

\* one call of BTree::delete(k)
DoDelete(k) ==
  LET st == delete(Store, k)
  IN /\ Commit(st)
     /\ expected' = [j \in (DOMAIN expected) \ {k} |-> expected[j]]

\* The workload.  Either a mixed one: any inserts and deletes of the keys of
\* Keys, at most MaxOps of them, on the new tree; or the sequential fill of
\* test_large_dataset (LoadCount keys 2, 4, 6, ... in ascending or in
\* descending order) followed by at most MaxProbes inserts and deletes of
\* keys of ProbeKeys.
LoadKey(n, d) == IF d THEN 2 * (LoadCount + 1 - n) ELSE 2 * n
Universe == IF loaded = 0 THEN Keys ELSE ProbeKeys
CanOperate ==
  /\ result # "panic"
  /\ \/ loaded = 0 /\ ops < MaxOps
     \/ loaded = LoadCount /\ ops < MaxProbes

Load(d) ==
  /\ result # "panic" /\ ops = 0 /\ loaded < LoadCount
  /\ loaded > 0 => d = descending
  /\ DoInsert(LoadKey(loaded + 1, d))
  /\ loaded' = loaded + 1
  /\ descending' = d
  /\ UNCHANGED ops

Insert(k) ==
  /\ CanOperate
  /\ DoInsert(k)
  /\ ops' = ops + 1
  /\ UNCHANGED <<loaded, descending>>

Delete(k) ==
  /\ CanOperate
  /\ DoDelete(k)
  /\ ops' = ops + 1
  /\ UNCHANGED <<loaded, descending>>

\* BufferPool::flush_all on the pool behind the tree: the entries whose
\* dirty flag is set are written to the file
FlushTree ==
  /\ result \notin {"panic", "flushed"}
  /\ disk_nodes' = [p \in (DOMAIN disk_nodes) \cup dirty_nodes |->
                      IF p \in dirty_nodes THEN pages[p] ELSE disk_nodes[p]]
  /\ dirty_nodes' = {}
  /\ result' = "flushed"
  /\ UNCHANGED <<root_page_id, pages, free_list, next_page_num, expected,
                 ops, loaded, descending, pvars, xvars>>

Next == \/ \E d \in BOOLEAN : Load(d)
        \/ \E k \in Universe : Insert(k)
        \/ \E k \in Universe : Delete(k)

Spec == Init /\ [][Next]_vars

\* The drain scenario: distinct keys are inserted into the new tree, and
\* once the first key has been deleted only keys that are present are
\* deleted, until none is left.
DrainKeys == 1..DrainCount

DrainInsert(k) ==
  /\ result # "panic" /\ ops = 0 /\ loaded = 0
  /\ k \notin DOMAIN expected
  /\ DoInsert(k)
  /\ UNCHANGED <<ops, loaded, descending>>

DrainDelete(k) ==
  /\ result # "panic" /\ loaded = 0
  /\ k \in DOMAIN expected
  /\ DoDelete(k)
  /\ ops' = ops + 1
  /\ UNCHANGED <<loaded, descending>>

DrainNext ==
  \/ \E k \in DrainKeys : DrainInsert(k)
  \/ \E k \in DrainKeys : DrainDelete(k)

SpecDrain == Init /\ [][DrainNext]_vars

\* The crash-stop scenario: at most DurableOps inserts and deletes on the
\* new tree, and flush_all at any moment.
DurableNext ==
  \/ ops < DurableOps /\ \E k \in Keys : Insert(k)
  \/ ops < DurableOps /\ \E k \in Keys : Delete(k)
  \/ FlushTree

SpecDurable == Init /\ [][DurableNext]_vars

\* The tree over a pager whose writes can fail: the sequential fill, then
\* at most FailProbes inserts and deletes of keys of ProbeKeys; in any call
\* the n-th node write may fail, for n up to MaxWrites.
Writes == 1..MaxWrites

\* one call of BTree::insert(k, v) in which the n-th node write fails
DoInsertFailing(k, n) ==
  LET v == RowIdFor(k, search(Store, k) # NoVal)
      st == insert([Store EXCEPT !.io = n], k, v)
  IN /\ Commit(st)
     /\ expected' = IF st.status = "ok" THEN (k :> v) @@ expected
                    ELSE expected

\* one call of BTree::delete(k) in which the n-th node write fails
DoDeleteFailing(k, n) ==
  LET st == delete([Store EXCEPT !.io = n], k)
  IN /\ Commit(st)
     /\ expected' = IF st.status = "io" THEN expected
                    ELSE [j \in (DOMAIN expected) \ {k} |-> expected[j]]

Usable == result \notin {"panic", "io"}

FailingLoad(d, n) ==
  /\ Usable /\ ops = 0 /\ loaded < LoadCount
  /\ loaded > 0 => d = descending
  /\ DoInsertFailing(LoadKey(loaded + 1, d), n)
  /\ loaded' = loaded + 1
  /\ descending' = d
  /\ UNCHANGED ops

FailingInsert(k, n) ==
  /\ Usable /\ loaded = LoadCount /\ ops < FailProbes
  /\ DoInsertFailing(k, n)
  /\ ops' = ops + 1
  /\ UNCHANGED <<loaded, descending>>

FailingDelete(k, n) ==
  /\ Usable /\ loaded = LoadCount /\ ops < FailProbes
  /\ DoDeleteFailing(k, n)
  /\ ops' = ops + 1
  /\ UNCHANGED <<loaded, descending>>

FailNext ==
  \/ Usable /\ \E d \in BOOLEAN : Load(d)
  \/ \E d \in BOOLEAN, n \in Writes : FailingLoad(d, n)
  \/ \E k \in ProbeKeys, n \in Writes : FailingInsert(k, n)
  \/ \E k \in ProbeKeys, n \in Writes : FailingDelete(k, n)

SpecFail == Init /\ [][FailNext]_vars

\* ----------------------------------------------------------------------
\* test_concurrent_access: NumTasks tasks share the tree behind one RwLock.
\* Each takes the write lock, inserts its own key (the load of the root and
\* the rest of insert are two steps: the call is suspended between them),
\* drops the lock, takes the read lock and searches its key.  The tree the
\* tasks are spawned on is the new one or any stage of the sequential fill.
\* ----------------------------------------------------------------------
\* RwLock: write() is granted when nobody holds the lock, read() when no
\* writer holds it
write_shared(lock) == TRUE
write(lock) == lock.writer = 0 /\ lock.readers = {}
read(lock) == lock.writer = 0

TaskStep(t, from, to) ==
  /\ task_pc[t] = from
  /\ task_pc' = [task_pc EXCEPT ![t] = to]

\* let mut btree = btree.write().await
AcquireWrite(t) ==
  /\ TaskStep(t, "spawned", "write")
  /\ write(rwlock)
  /\ rwlock' = [rwlock EXCEPT !.writer = t]
  /\ UNCHANGED <<task_root, task_value, tvars, pvars, rvars, hvars, lvars>>

\* let mut root = self.load_node(self.root_page_id).await?
InsertLoad(t) ==
  /\ TaskStep(t, "write", "loaded")
  /\ task_root' = [task_root EXCEPT ![t] = load_node(Store, root_page_id)]
  /\ UNCHANGED <<rwlock, task_value, tvars, pvars, rvars, hvars, lvars>>

\* the rest of insert, and the drop of the write guard
InsertRest(t) ==
  /\ TaskStep(t, "loaded", "inserted")
  /\ LET st == insert_loaded(Store, task_root[t], TaskKey(t), TaskValue(t))
     IN /\ CommitTree(st)
        /\ expected' = IF st.status = "ok"
                       THEN (TaskKey(t) :> TaskValue(t)) @@ expected
                       ELSE expected
  /\ rwlock' = [rwlock EXCEPT !.writer = 0]
  /\ UNCHANGED <<task_root, task_value, ops, loaded, descending, disk_nodes,
                 pvars, rvars, hvars, lvars>>

\* let btree = btree.read().await
AcquireRead(t) ==
  /\ TaskStep(t, "inserted", "read")
  /\ read(rwlock)
  /\ rwlock' = [rwlock EXCEPT !.readers = @ \cup {t}]
  /\ UNCHANGED <<task_root, task_value, tvars, pvars, rvars, hvars, lvars>>

\* btree.search(key), and the drop of the read guard at the end of the task
Search(t) ==
  /\ TaskStep(t, "read", "done")
  /\ task_value' = [task_value EXCEPT ![t] = search(Store, TaskKey(t))]
  /\ rwlock' = [rwlock EXCEPT !.readers = @ \ {t}]
  /\ UNCHANGED <<task_root, tvars, pvars, rvars, hvars, lvars>>

TasksNext ==
  \/ (\A t \in Tasks : task_pc[t] = "spawned") /\ \E d \in BOOLEAN : Load(d)
  \/ \E t \in Tasks : AcquireWrite(t)
  \/ \E t \in Tasks : InsertLoad(t)
  \/ \E t \in Tasks : InsertRest(t)
  \/ \E t \in Tasks : AcquireRead(t)
  \/ \E t \in Tasks : Search(t)

SpecTasks == Init /\ [][TasksNext]_vars

\* ======================================================================
\* The buffer pool as a state machine: NumTasks tasks share one pool over
\* one file and call its methods in any order.  get_page takes up to three
\* steps (the lookup under the read lock, load_page, add_to_cache under the
\* write lock), so calls of different tasks interleave between them; every
\* other method runs under the locks it takes and is one step.
\* ======================================================================
PageIds == 0..(NumPoolPages - 1)
\* The pages of the file are alike, so they are asked for, for the first
\* time, in the order of their numbers: asked pages have been asked for, and
\* the calls are for those and for page number asked.
Known == {p \in PageIds : p <= asked}
\* the block clients write to
WriteBlock == 1

Pool == [max_pages |-> max_pages, pages |-> pool_pages, lru |-> lru,
         stats |-> stats, stamps |-> stamps, buffers |-> buffers,
         disk |-> disk, res |-> "Ok", handle |-> NoHandle,
         io |-> FALSE, failed |-> 0]

\* handles maps a buffer to the number of handles to it that clients got
\* from get_page and have not yet given back with unpin_page
Acquire(hs, b) ==
  IF b \in DOMAIN hs THEN [hs EXCEPT ![b] = @ + 1] ELSE (b :> 1) @@ hs
Release(hs, b) ==
  IF hs[b] > 1 THEN [hs EXCEPT ![b] = @ - 1] ELSE Drop(hs, b)
Held(page_id) == {b \in DOMAIN handles : buffers[b].id = page_id}

\* a buffer lives as long as an entry or a handle refers to it
CommitPool(bp, hs) ==
  /\ pool_pages' = bp.pages
  /\ lru' = bp.lru
  /\ stats' = bp.stats
  /\ stamps' = bp.stamps
  /\ disk' = bp.disk
  /\ handles' = hs
  /\ buffers' = LET live == {bp.pages[p].page : p \in DOMAIN bp.pages}
                            \cup DOMAIN hs
                IN [b \in live |-> bp.buffers[b]]
  /\ pool_result' = bp.res
  /\ UNCHANGED <<tvars, xvars>>

\* every call of a method of the pool or of write_at counts
Called == pool_calls < MaxCalls /\ pool_calls' = pool_calls + 1

InFlight == BagToSet(calls)
Moved(c, d) == (calls (-) SetToBag({c})) (+) SetToBag({d})
Returned(c) == calls (-) SetToBag({c})

\* get_page, lines 54-72: a hit returns the handle; a miss counts and goes on
GetPage(page_id) ==
  /\ asked' = IF page_id = asked THEN asked + 1 ELSE asked
  /\ BagCardinality(calls) < NumTasks
  /\ Called
  /\ IF page_id \in DOMAIN pool_pages
     THEN LET bp == get_page_hit(Pool, page_id)
          IN /\ CommitPool(bp, Acquire(handles, bp.handle))
             /\ UNCHANGED calls
     ELSE /\ CommitPool([get_page_miss(Pool, page_id) EXCEPT !.res = pool_result],
                        handles)
          /\ calls' = calls (+) SetToBag({[pc |-> "load", page_id |-> page_id,
                                           page |-> NoPage]})
  /\ UNCHANGED evicted

\* get_page, line 75
LoadPage(c) ==
  /\ UNCHANGED asked
  /\ c.pc = "load"
  /\ LET r == load_page(Pool, c.page_id)
     IN IF r.res = "Ok"
        THEN /\ calls' = Moved(c, [c EXCEPT !.pc = "add", !.page = r.page])
             /\ UNCHANGED pool_result
        ELSE /\ calls' = Returned(c)
             /\ pool_result' = r.res
  /\ UNCHANGED <<pool_pages, lru, stats, stamps, buffers, disk,
                 handles, evicted, pool_calls, tvars, xvars>>

\* evicted remembers, for a page that was dirty when it was evicted and has
\* not been put into the pool since, the image it had at that moment
EvictedAfter(bp, page_id) ==
  LET gone == {q \in DOMAIN pool_pages :
                 q \notin DOMAIN bp.pages /\ pool_pages[q].dirty}
      back == IF bp.res = "Ok" THEN {page_id} ELSE {}
  IN [q \in ((DOMAIN evicted) \cup gone) \ back |->
        IF q \in gone THEN buffers[pool_pages[q].page].data ELSE evicted[q]]

\* get_page, line 78
AddToCache(c) ==
  /\ UNCHANGED asked
  /\ c.pc = "add"
  /\ LET bp == add_to_cache(Pool, c.page_id, c.page)
     IN /\ CommitPool(bp, IF bp.res = "Ok" THEN Acquire(handles, bp.handle)
                          ELSE handles)
        /\ evicted' = EvictedAfter(bp, c.page_id)
  /\ calls' = Returned(c)
  /\ UNCHANGED pool_calls

Pin(page_id) ==
  /\ UNCHANGED asked
  /\ Called
  /\ CommitPool(pin_page(Pool, page_id), handles)
  /\ UNCHANGED <<calls, evicted>>

\* a client that holds a handle of the page gives one back with the call
Unpin(page_id) ==
  /\ UNCHANGED asked
  /\ Called
  /\ LET bp == unpin_page(Pool, page_id)
     IN IF bp.res = "Ok" /\ Held(page_id) # {}
        THEN \E b \in Held(page_id) : CommitPool(bp, Release(handles, b))
        ELSE CommitPool(bp, handles)
  /\ UNCHANGED <<calls, evicted>>

MarkDirty(page_id) ==
  /\ UNCHANGED asked
  /\ Called
  /\ CommitPool(mark_dirty(Pool, page_id), handles)
  /\ UNCHANGED <<calls, evicted>>

FlushPage(page_id) ==
  /\ UNCHANGED asked
  /\ Called
  /\ CommitPool(flush_page(Pool, page_id), handles)
  /\ UNCHANGED <<calls, evicted>>

FlushAll ==
  /\ UNCHANGED asked
  /\ Called
  /\ CommitPool(flush_all(Pool), handles)
  /\ UNCHANGED <<calls, evicted>>

\* a client writes through a handle it holds (page.write().await.write_at)
WriteAt(b) ==
  /\ UNCHANGED asked
  /\ Called
  /\ buffers' = [buffers EXCEPT ![b] = write_at(@, WriteBlock, RawBlock)]
  /\ UNCHANGED <<pool_pages, lru, stats, stamps, disk, calls,
                 handles, pool_result, evicted, tvars, xvars>>

PoolNext ==
  \/ \E page_id \in Known : GetPage(page_id)
  \/ \E c \in InFlight : LoadPage(c)
  \/ \E c \in InFlight : AddToCache(c)
  \/ \E page_id \in Known : Pin(page_id)
  \/ \E page_id \in Known : Unpin(page_id)
  \/ \E page_id \in Known : MarkDirty(page_id)
  \/ \E page_id \in Known : FlushPage(page_id)
  \/ FlushAll
  \/ \E b \in DOMAIN handles : WriteAt(b)

SpecPool == Init /\ [][PoolNext]_vars

\* The pool under the operations of a tree of three nodes, more than the
\* pool holds: the root in page TreeRoot, a leaf in each page of TreeLeaves.
\* An operation is the sequence of the pages its load_node and save_node
\* calls ask get_page for; the handles it gets are dropped when it returns.
TreeRoot == 0
TreeLeaves == {1, 2}
TreePaths ==
  \* search_node, and height for the first leaf: load root, load leaf
  {<<TreeRoot, leaf>> : leaf \in TreeLeaves}
  \* insert into a leaf with room: load root, load leaf, save leaf
  \cup {<<TreeRoot, leaf, leaf>> : leaf \in TreeLeaves}
  \* delete_key in a leaf: load root, load leaf, save leaf, load leaf
  \cup {<<TreeRoot, leaf, leaf, leaf>> : leaf \in TreeLeaves}

TreeOp(path) ==
  /\ asked' = NumPoolPages
  /\ Called
  /\ CommitPool(get_pages(Pool, path), handles)
  /\ UNCHANGED <<calls, evicted>>

TreePoolNext == \E path \in TreePaths : TreeOp(path)

SpecTreePool == Init /\ [][TreePoolNext]_vars

\* The pool over a file that can reject a write: the calls of above, and
\* the calls that write pages to the file with the write being rejected.
FailingPool == [Pool EXCEPT !.io = TRUE]

FlushPageFailing(page_id) ==
  /\ UNCHANGED asked
  /\ Called
  /\ CommitPool(flush_page(FailingPool, page_id), handles)
  /\ UNCHANGED <<calls, evicted>>

FlushAllFailing ==
  /\ UNCHANGED asked
  /\ Called
  /\ CommitPool(flush_all(FailingPool), handles)
  /\ UNCHANGED <<calls, evicted>>

AddToCacheFailing(c) ==
  /\ UNCHANGED asked
  /\ c.pc = "add"
  /\ LET bp == add_to_cache(FailingPool, c.page_id, c.page)
     IN /\ CommitPool(bp, IF bp.res = "Ok" THEN Acquire(handles, bp.handle)
                          ELSE handles)
        /\ evicted' = EvictedAfter(bp, c.page_id)
  /\ calls' = Returned(c)
  /\ UNCHANGED pool_calls

PoolFailNext ==
  \/ PoolNext
  \/ \E page_id \in Known : FlushPageFailing(page_id)
  \/ FlushAllFailing
  \/ \E c \in InFlight : AddToCacheFailing(c)

SpecPoolFail == Init /\ [][PoolFailNext]_vars

\* ----------------------------------------------------------------------
\* One page under the calls of its record methods, in a build with the
\* overflow checks of arithmetic or without them.  recs is what the
\* callers hold: for each slot id handed out by insert_record, the bytes of
\* the last insert_record or update_record that returned Ok for it, and
\* whether it was since updated or deleted by a call that returned Ok.
\* ----------------------------------------------------------------------
PageNums == {1, 64}
Records == {<<1>>, <<2, 3, 4, 5, 6>>, [i \in 1..BigLen |-> IF i <= 2 THEN 9 ELSE 0]}
SlotIds == 0..MaxSlot

PageCalled(op, slot_id, bytes, r) ==
  /\ slotted' = r.page
  /\ page_call' = [op |-> op, slot |-> slot_id, bytes |-> bytes,
                   res |-> r.res, val |-> r.val]
  /\ page_ops' = page_ops + 1
  /\ UNCHANGED <<tvars, pvars, kvars, hvars, lvars>>

PageCanCall ==
  /\ page_call.op # "none"
  /\ page_call.res # "panic"
  /\ page_ops < MaxPageOps

Held_(slot_id, bytes, state) == (slot_id + 1) :> [bytes |-> bytes, state |-> state]

PageCreate(id) ==
  /\ page_call.op = "none"
  /\ PageCalled("new", 0, <<>>, [page |-> Page_new(id, <<>>), res |-> "Ok", val |-> Unit])
  /\ UNCHANGED recs

InsertRecord(bytes, overflow_checks) ==
  /\ PageCanCall
  /\ LET r == insert_record(slotted, bytes, overflow_checks)
     IN /\ PageCalled("insert", 0, bytes, r)
        /\ recs' = IF r.res = "Ok" THEN Held_(r.val, bytes, "inserted") @@ recs
                   ELSE recs

UpdateRecord(slot_id, bytes, overflow_checks) ==
  /\ PageCanCall
  /\ LET r == update_record(slotted, slot_id, bytes, overflow_checks)
     IN /\ PageCalled("update", slot_id, bytes, r)
        /\ recs' = IF r.res = "Ok" /\ slot_id + 1 \in DOMAIN recs
                   THEN Held_(slot_id, bytes, "updated") @@ recs
                   ELSE recs

DeleteRecord(slot_id) ==
  /\ PageCanCall
  /\ LET r == delete_record(slotted, slot_id)
     IN /\ PageCalled("delete", slot_id, <<>>, r)
        /\ recs' = IF r.res = "Ok" /\ slot_id + 1 \in DOMAIN recs
                   THEN Held_(slot_id, <<>>, "deleted") @@ recs
                   ELSE recs

Compact ==
  /\ PageCanCall
  /\ PageCalled("compact", 0, <<>>, compact(slotted))
  /\ UNCHANGED recs

PageNext ==
  \/ \E id \in PageNums : PageCreate(id)
  \/ \E bytes \in Records, c \in BOOLEAN : InsertRecord(bytes, c)
  \/ \E slot_id \in SlotIds, bytes \in Records, c \in BOOLEAN :
       UpdateRecord(slot_id, bytes, c)
  \/ \E slot_id \in SlotIds : DeleteRecord(slot_id)
  \/ Compact

SpecPage == Init /\ [][PageNext]_vars


\* ----------------------------------------------------------------------
\* The table under at most MaxInserts calls of insert, with rows of the
\* lengths of RowLens, in a build with overflow checks or without.
\* ----------------------------------------------------------------------
\* the last length is the longest row that fits in an empty page with its
\* slot entry
RowLens == {1, 5, 100, BigLen, PAGE_SIZE - PAGE_HEADER_SIZE - SLOT_SIZE}
Row(len) == [i \in 1..len |-> IF i = 1 THEN 7 ELSE 0]
Table == [pages |-> table_pages, stats |-> table_stats]

TableInsert(len, overflow_checks) ==
  /\ table_call.res # "panic"
  /\ table_calls < MaxInserts
  /\ LET r == Table_insert(Table, Row(len), overflow_checks)
     IN /\ table_pages' = r.tb.pages
        /\ table_stats' = r.tb.stats
        /\ table_call' = [op |-> "insert", len |-> len, res |-> r.res, val |-> r.val]
  /\ table_calls' = table_calls + 1
  /\ UNCHANGED <<tvars, pvars, rvars, kvars, lvars>>

\* make_row_id on its own, for file ids, page numbers and slot ids at and
\* around the widths of the three fields of a row id
FileIds == {U64(0), U64(1), U64(65535), <<0, 1, 0, 0>>}
PageNumbers == {U64(0), U64(1), <<0, 1, 0, 0>>, <<65535, 65535, 0, 0>>, <<0, 0, 1, 0>>}
SlotNumbers == {0, 1, 65535}
RowIdArgs ==
  {[page_id |-> PageId_new(f, n), slot_id |-> s] :
     f \in FileIds, n \in PageNumbers, s \in SlotNumbers}

MakeRowId(arg) ==
  /\ table_call.res # "panic"
  /\ table_call' = [op |-> "make_row_id", arg |-> arg, res |-> "Ok",
                    val |-> make_row_id(arg.page_id, arg.slot_id)]
  /\ UNCHANGED <<table_pages, table_stats, table_calls>>
  /\ UNCHANGED <<tvars, pvars, rvars, kvars, lvars>>

TableNext ==
  \/ \E len \in RowLens, c \in BOOLEAN : TableInsert(len, c)
  \/ \E arg \in RowIdArgs : MakeRowId(arg)

SpecTable == Init /\ [][TableNext]_vars

\* ---- the locks of the pool, one step per lock a call asks for ----
\* a guard taken and dropped without another lock asked for in between is
\* one step; every guard of a call is dropped when the call returns
LatchStep(t, from, to) ==
  /\ latch_pc[t] = from
  /\ latch_pc' = [latch_pc EXCEPT ![t] = to]
  /\ UNCHANGED <<tvars, pvars, rvars, kvars, hvars>>

dropped(lock, t) == [writer |-> IF lock.writer = t THEN 0 ELSE lock.writer,
                     readers |-> lock.readers \ {t}]

\* the return of a call of the pool: pages, entry and stats guards dropped
returned(ls, t) == [ls EXCEPT !.pages = dropped(@, t), !.entry = dropped(@, t),
                              !.stats = dropped(@, t)]

\* page.write().await by the holder of a handle
WriteLatch(t) ==
  /\ LatchStep(t, "spawned", "latched")
  /\ write(latches.page)
  /\ latches' = [latches EXCEPT !.page.writer = t]

\* mark_dirty: self.pages.read().await
MarkDirtyPages(t) ==
  /\ LatchStep(t, "latched", "mark_dirty")
  /\ read(latches.pages)
  /\ latches' = [latches EXCEPT !.pages.readers = @ \cup {t}]

\* mark_dirty: entry.write().await, entry.dirty = true, return
MarkDirtyEntry(t) ==
  /\ LatchStep(t, "mark_dirty", "marked")
  /\ write(latches.entry)
  /\ latches' = returned([latches EXCEPT !.dirty = TRUE], t)

\* unpin_page: self.pages.read().await
UnpinPages(t) ==
  /\ LatchStep(t, "marked", "unpin_page")
  /\ read(latches.pages)
  /\ latches' = [latches EXCEPT !.pages.readers = @ \cup {t}]

\* unpin_page: entry.write().await, the pin count, return
UnpinEntry(t) ==
  /\ LatchStep(t, "unpin_page", "unpinned")
  /\ write(latches.entry)
  /\ latches' = returned(latches, t)

\* the drop of the page's write guard
DropLatch(t) ==
  /\ LatchStep(t, "unpinned", "done")
  /\ latches' = [latches EXCEPT !.page = dropped(@, t)]

\* flush_page, flush_all: self.pages.read().await
FlushPages(t) ==
  /\ LatchStep(t, "spawned", "flush")
  /\ read(latches.pages)
  /\ latches' = [latches EXCEPT !.pages.readers = @ \cup {t}]

\* flush_page, flush_all: entry.write().await; a clean entry returns
FlushEntry(t) ==
  /\ LatchStep(t, "flush", IF latches.dirty THEN "flush_dirty" ELSE "done")
  /\ write(latches.entry)
  /\ latches' = IF latches.dirty
                THEN [latches EXCEPT !.entry.writer = t]
                ELSE returned(latches, t)

\* flush_page, flush_all: entry.page.write().await.flush().await,
\* entry.dirty = false, return
FlushLatch(t) ==
  /\ LatchStep(t, "flush_dirty", "done")
  /\ write(latches.page)
  /\ latches' = returned([latches EXCEPT !.dirty = FALSE], t)

\* get_page, the page cached: self.pages.read().await
GetPages(t) ==
  /\ LatchStep(t, "spawned", "get_page")
  /\ read(latches.pages)
  /\ latches' = [latches EXCEPT !.pages.readers = @ \cup {t}]

\* get_page: entry.write().await, the pin count
GetEntry(t) ==
  /\ LatchStep(t, "get_page", "get_pinned")
  /\ write(latches.entry)
  /\ latches' = [latches EXCEPT !.entry.writer = t]

\* get_page: self.stats.write().await, the hit count, return
GetStats(t) ==
  /\ LatchStep(t, "get_pinned", "done")
  /\ write(latches.stats)
  /\ latches' = returned(latches, t)

LatchNext ==
  \/ \E t \in LatchTasks : WriteLatch(t)
  \/ \E t \in LatchTasks : MarkDirtyPages(t)
  \/ \E t \in LatchTasks : MarkDirtyEntry(t)
  \/ \E t \in LatchTasks : UnpinPages(t)
  \/ \E t \in LatchTasks : UnpinEntry(t)
  \/ \E t \in LatchTasks : DropLatch(t)
  \/ \E t \in LatchTasks : FlushPages(t)
  \/ \E t \in LatchTasks : FlushEntry(t)
  \/ \E t \in LatchTasks : FlushLatch(t)
  \/ \E t \in LatchTasks : GetPages(t)
  \/ \E t \in LatchTasks : GetEntry(t)
  \/ \E t \in LatchTasks : GetStats(t)

SpecLatch == Init /\ [][LatchNext]_vars

\* ---- observations used by the properties ----
StoreNext == [root |-> root_page_id', pages |-> pages', free |-> free_list',
              next |-> next_page_num', status |-> "ok", dirty |-> dirty_nodes',
              io |-> 0]

\* pages reachable from page_id through child pointers
RECURSIVE Reach(_, _)
Reach(st, page_id) ==
  {page_id} \cup UNION {Reach(st, c) : c \in Range(st.pages[page_id].children)}
TreeNodes == {pages[p] : p \in Reach(Store, root_page_id)}
RootNode == pages[root_page_id]

KeysUnder(st, page_id) == {e[1] : e \in Range(TreeEntries(st, page_id))}
TreeKeys == KeysUnder(Store, root_page_id)
\* the values stored in the tree under key k
ValuesOf(k) ==
  {e[2] : e \in {x \in Range(TreeEntries(Store, root_page_id)) : x[1] = k}}

\* depths (root = 1) of the leaves below page_id
RECURSIVE LeafDepths(_, _, _)
LeafDepths(st, page_id, d) ==
  LET node == st.pages[page_id]
  IN IF node.is_leaf THEN {d}
     ELSE UNION {LeafDepths(st, c, d + 1) : c \in Range(node.children)}

StrictlyIncreasing(s) == \A j \in 1..(Len(s) - 1) : s[j] < s[j + 1]

\* the step is a call insert(k) / delete(k); the conjuncts before the call
\* follow from it and only spare evaluating the call on steps that touch
\* another key
InsertStep(k) ==
  /\ (expected' = expected \/ ExpectedNext(k) # Expected(k))
  /\ DoInsert(k)
DeleteStep(k) ==
  /\ result' # "dup"
  /\ (expected' = expected \/ ExpectedNext(k) # Expected(k))
  /\ DoDelete(k)

\* sorted({k : lo <= k < hi, k expected}) with the expected values
RECURSIVE SortedPairs(_)
SortedPairs(S) ==
  IF S = {} THEN <<>>
  ELSE LET m == CHOOSE x \in S : \A y \in S : x <= y
       IN <<<<m, expected[m]>>>> \o SortedPairs(S \ {m})
ExpectedRange(lo, hi) ==
  SortedPairs({k \in DOMAIN expected : lo <= k /\ k < hi})
\* scan bounds at and just past every key of the tree or of expected
ScanBounds ==
  LET ks == TreeKeys \cup DOMAIN expected
  IN {1} \cup ks \cup {k + 1 : k \in ks}
\* ---- properties ----

\* C1: once insert(k, v) has returned Ok, search(k) returns Some(v) after any
\* later inserts and deletes of other keys, until delete(k) is called
C1_RoundTrip ==
  result # "panic" =>
    \A k \in DOMAIN expected : search(Store, k) = expected[k]

\* C2: on a unique tree, insert of a key that is already in the tree returns
\* the duplicate-key error and search(k) still returns the original value
C2_DuplicateRejected ==
  [][\A k \in TreeKeys :
       (unique /\ InsertStep(k))
         => (result' = "dup" /\ search(StoreNext, k) = search(Store, k))]_vars

\* C3: range_scan(lo, hi) returns exactly the pairs (k, value of k) for the
\* keys k of the tree with lo <= k < hi, each once, in ascending key order
C3_RangeCorrect ==
  result # "panic" =>
    \A lo \in ScanBounds : \A hi \in ScanBounds :
       range_scan(Store, lo, hi) = ExpectedRange(lo, hi)

\* C4: delete(k) of a present key removes exactly k: afterwards search(k) is
\* None and every other key of the tree still returns its inserted value
C4_DeleteExactlyK ==
  [][\A k \in TreeKeys :
       (result' = "ok" /\ DeleteStep(k))
         => /\ search(StoreNext, k) = NoVal
            /\ \A j \in TreeKeys \ {k} :
                  search(StoreNext, j) \in ValuesOf(j)]_vars

\* C5: after any sequence of inserts and deletes every non-root node holds
\* at least MIN_KEYS and at most MAX_KEYS keys
C5_NodeFill ==
  result # "panic" =>
    \A n \in TreeNodes :
       n.page_id # root_page_id
         => (MIN_KEYS <= Len(n.keys) /\ Len(n.keys) <= MAX_KEYS)

\* C6: the root has zero keys only when the tree holds no keys
C6_RootShrinks ==
  result # "panic" => (Len(RootNode.keys) = 0 => TreeKeys = {})

\* C7: on a unique tree the keys of every node are strictly increasing, the
\* keys below children[i] are < keys[i], the keys below children[i+1] are
\* >= keys[i], and the in-order listing is strictly increasing
C7_SearchTreeOrder ==
  (unique /\ result # "panic") =>
    /\ \A n \in TreeNodes :
         /\ StrictlyIncreasing(n.keys)
         /\ ~n.is_leaf =>
              \A i \in 0..(Len(n.keys) - 1) :
                 /\ \A x \in KeysUnder(Store, At(n.children, i)) :
                       x < At(n.keys, i)
                 /\ \A x \in KeysUnder(Store, At(n.children, i + 1)) :
                       x >= At(n.keys, i)
    /\ StrictlyIncreasing([j \in 1..Len(TreeEntries(Store, root_page_id)) |->
                             TreeEntries(Store, root_page_id)[j][1]])
\* C8: all leaves are at the same depth, and height(), computed along the
\* leftmost path, is that depth
C8_LeavesSameDepth ==
  result # "panic" => LeafDepths(Store, root_page_id, 1) = {height(Store)}

\* C9: every internal node has keys.len()+1 children, every leaf has no
\* children, and values has the length of keys in every node
C9_NodeShape ==
  result # "panic" =>
    \A n \in TreeNodes :
       /\ Len(n.values) = Len(n.keys)
       /\ n.is_leaf => n.children = <<>>
       /\ ~n.is_leaf => Len(n.children) = Len(n.keys) + 1

\* C10: delete(k) of a key that is not in the tree returns Ok and leaves the
\* tree unchanged: same content, same node structure
C10_DeleteAbsentNoOp ==
  [][\A k \in Universe \ TreeKeys :
       DeleteStep(k)
         => (result' = "ok" /\ pages' = pages
             /\ root_page_id' = root_page_id)]_vars
\* C8 witness: a loaded tree of height 3 in which a delete has merged nodes
C8_Witness ==
  /\ result = "ok" /\ ops > 0
  /\ height(Store) = 3
  /\ free_list # <<>>

\* C9 witness: two internal nodes have been merged into one with
\* 2 * MIN_KEYS keys and 2 * MIN_KEYS + 1 children
C9_Witness ==
  /\ result = "ok" /\ ops > 0
  /\ \E n \in TreeNodes :
        /\ ~n.is_leaf /\ n.page_id # root_page_id
        /\ Len(n.keys) = 2 * MIN_KEYS /\ Len(n.children) = 2 * MIN_KEYS + 1

\* ---- observations of the buffer pool ----
PinCount(page_id) == pool_pages[page_id].pin_count
Unpinned == {p \in DOMAIN pool_pages : PinCount(p) = 0}
\* the entries that leave the map in the step
Leaving == {p \in DOMAIN pool_pages : p \notin DOMAIN pool_pages'}
\* the image in the buffer of the entry of page_id
Contents(page_id) == buffers[pool_pages[page_id].page].data
PosIn(order, x) == CHOOSE i \in 1..Len(order) : order[i] = x
\* the step is the return of a call of get_page from add_to_cache
AddReturns == BagCardinality(calls') < BagCardinality(calls) /\ pool_result' # "Io"
\* the calls of get_page that load_page has just read the page for
JustLoaded ==
  {c \in BagToSet(calls') : c.pc = "add" /\ CopiesIn(c, calls') > CopiesIn(c, calls)}

\* ---- the tree's pages as a new pool would read them from the file ----
DiskStore == [root |-> root_page_id, pages |-> disk_nodes, free |-> free_list,
              next |-> next_page_num, status |-> "ok", dirty |-> {}]
RECURSIVE OnDisk(_)
OnDisk(page_id) ==
  /\ page_id \in DOMAIN disk_nodes
  /\ \A c \in Range(disk_nodes[page_id].children) : OnDisk(c)
\* search of a tree opened at root_page_id; a page missing from the file
\* fails the search
DiskSearch(k) == IF OnDisk(root_page_id) THEN search(DiskStore, k) ELSE NoVal

C12_DirtyNeverLost ==
  [][\A p \in DOMAIN pool_pages :
       (pool_pages[p].dirty
        /\ (p \in Leaving \/ pool_pages'[p].page # pool_pages[p].page))
       => disk'[p] = Contents(p)]_vars

\* C13: get_page returns the no-eviction-candidate error only from a pool
\* in which every entry is pinned
C13_FailsOnlyAllPinned ==
  [][(AddReturns /\ pool_result' = "NoEviction") => Unpinned = {}]_vars

\* C14: the entry evicted is, among the entries with pin_count = 0, the
\* one whose last access (load, get_page hit, pin_page) is the oldest
C14_EvictsOldestAccess ==
  [][\A q \in Leaving : \A r \in Unpinned \ {q} :
       PosIn(stamps, q) < PosIn(stamps, r)]_vars

\* C15: a page that was dirty when it was evicted is read back, by the next
\* get_page for it, with the image it had when it was evicted
C15_ReloadIdentical ==
  [][\A c \in JustLoaded :
       c.page_id \in DOMAIN evicted => c.page.data = evicted[c.page_id]]_vars

\* C16: the handles that clients hold pinned for one PageId are handles to
\* one buffer
C16_OneBufferPerPage ==
  \A b1 \in DOMAIN handles : \A b2 \in DOMAIN handles :
    buffers[b1].id = buffers[b2].id => b1 = b2

\* C17: after flush_all, a tree opened at root_page_id over the file finds
\* every key with the value of its insert
C17_Durable ==
  result = "flushed" => \A k \in DOMAIN expected : DiskSearch(k) = expected[k]

\* C18: unpin_page of an entry with pin_count = 0 returns the not-pinned
\* error and changes no entry; with pin_count > 0 it lowers pin_count by one
\* and changes nothing else of the map; no pin_count is ever below 0
C18_UnpinChecked ==
  [][/\ \A p \in DOMAIN pool_pages' : pool_pages'[p].pin_count >= 0
     /\ \A p \in DOMAIN pool_pages :
          Unpin(p) =>
            IF PinCount(p) = 0
            THEN pool_result' = "NotPinned" /\ pool_pages' = pool_pages
            ELSE /\ pool_result' = "Ok"
                 /\ pool_pages' = [pool_pages EXCEPT ![p].pin_count = @ - 1]]_vars

\* C19: every entry with pin_count = 0 is in the LRU cache, and the LRU
\* cache holds no PageId that is not in the map
C19_Accounting ==
  /\ Unpinned \subseteq Range(lru)
  /\ Range(lru) \subseteq DOMAIN pool_pages

\* C20: the map never holds more than max_pages entries
C20_Capacity == Cardinality(DOMAIN pool_pages) <= max_pages

C18_Witness ==
  /\ pool_result = "NotPinned"
  /\ Unpinned # {}

\* the pool is full after an eviction while another call of get_page has
\* read its page and waits to add it
C20_Witness ==
  /\ Cardinality(DOMAIN pool_pages) = max_pages
  /\ stats.eviction_count > 0
  /\ \E c \in InFlight : c.pc = "add"

\* ---- the slotted page ----
PageExists == page_call.op # "none"
SlotCount == get_slot_count(slotted)
\* the records the callers hold that no call has deleted
LiveSlots == {s \in DOMAIN recs : recs[s].state # "deleted"}

RECURSIVE SumOfLengths(_)
SumOfLengths(S) ==
  IF S = {} THEN 0
  ELSE LET s == CHOOSE x \in S : TRUE
       IN Len(recs[s].bytes) + SumOfLengths(S \ {s})

\* C21: a record read back under the slot id insert_record returned is
\* exactly the bytes inserted, as long as no update_record, delete_record
\* (or compact) touched that slot, whatever was inserted, updated or
\* deleted under the other slot ids since.
C21_RecordRoundTrip ==
  \A s \in DOMAIN recs :
    recs[s].state = "inserted" =>
      read_record(slotted, s - 1) = [res |-> "Ok", val |-> recs[s].bytes]

\* C22: free_space() is PAGE_SIZE - PAGE_HEADER_SIZE - slot_count * SLOT_SIZE
\* minus the lengths of the live records, and is never negative.
C22_FreeSpace ==
  PageExists =>
    /\ get_free_space(slotted) =
         PAGE_SIZE - PAGE_HEADER_SIZE - SlotCount * SLOT_SIZE - SumOfLengths(LiveSlots)
    /\ get_free_space(slotted) >= 0

\* C23: after Page::new and after every insert_record, update_record,
\* delete_record and compact, verify_checksum() is true.
C23_ChecksumValid ==
  (PageExists /\ page_call.res = "Ok") => verify_checksum(slotted)

\* C24: read_record returns an error for a slot id that is not below
\* slot_count and for a slot that delete_record has tombstoned.
C24_ReadRejects ==
  PageExists =>
    \A slot_id \in SlotIds :
      (slot_id >= SlotCount
         \/ (slot_id + 1 \in DOMAIN recs /\ recs[slot_id + 1].state = "deleted"))
      => read_record(slotted, slot_id).res # "Ok"

\* C25: an update_record that returns Ok either wrote the bytes in place
\* (they are no longer than the old record) and read_record of the slot
\* gives exactly them, or tombstoned the slot, appended the bytes and
\* returned the new slot id, under which read_record gives exactly them.
C25_UpdateReachable ==
  [][(page_call'.op = "update" /\ page_call'.res = "Ok" /\ page_ops' = page_ops + 1) =>
       LET slot_id == page_call'.slot
           bytes == page_call'.bytes
           old == read_slot(slotted, slot_id).slot
       IN IF Len(bytes) <= old.length
          THEN read_record(slotted', slot_id) = [res |-> "Ok", val |-> bytes]
          ELSE /\ page_call'.val # Unit
               /\ read_slot(slotted', slot_id).slot.length = 0
               /\ read_record(slotted', page_call'.val) = [res |-> "Ok", val |-> bytes]
    ]_vars

\* C26: compact leaves slot_count as it was, every slot that was not
\* tombstoned reads the same bytes as before, and a tombstoned slot is
\* still a tombstone.
C26_CompactPreserves ==
  [][(page_call'.op = "compact" /\ page_call'.res = "Ok" /\ page_ops' = page_ops + 1) =>
       /\ get_slot_count(slotted') = SlotCount
       /\ \A slot_id \in 0..(SlotCount - 1) :
            IF read_slot(slotted, slot_id).slot.length > 0
            THEN read_record(slotted', slot_id) = read_record(slotted, slot_id)
            ELSE read_slot(slotted', slot_id).slot.length = 0
    ]_vars

\* ---- pager failures ----
\* every page reachable from page_id has been written
RECURSIVE Readable(_, _)
Readable(st, page_id) ==
  /\ page_id \in DOMAIN st.pages
  /\ \A c \in Range(st.pages[page_id].children) : Readable(st, c)

\* C27: when a node write fails during insert or delete, the call returns
\* the error and the tree reachable from root_page_id holds exactly the keys
\* and values it held before the call.
C27_NoPartialState ==
  [][result' = "io" =>
       /\ Readable(StoreNext, root_page_id')
       /\ Range(TreeEntries(StoreNext, root_page_id'))
            = Range(TreeEntries(Store, root_page_id))
    ]_vars

\* ---- the tasks of test_concurrent_access ----
\* C28: every task that has inserted its key under the write lock and
\* searched it under the read lock has read the value it inserted, whatever
\* the other tasks did in between.
C28_TasksReadOwnWrites ==
  \A t \in Tasks : task_pc[t] = "done" => task_value[t] = TaskValue(t)

\* all tasks are done, on a tree whose root has been split
C28_Witness ==
  /\ \A t \in Tasks : task_pc[t] = "done"
  /\ ~RootNode.is_leaf

\* ---- height ----
\* so far every call was an insert of a key that was not in the tree
InsertOnly == Cardinality(DOMAIN expected) = loaded + ops

\* C29: after n >= 1 inserts of distinct keys into the new tree, in any
\* order, h = height() satisfies
\* 2 * (MIN_KEYS + 1)^(h - 1) - 1 <= n <= (MAX_KEYS + 1)^h - 1.
C29_HeightBound ==
  (InsertOnly /\ loaded + ops >= 1 /\ result = "ok") =>
    LET n == loaded + ops
        h == height(Store)
    IN /\ 2 * (MIN_KEYS + 1)^(h - 1) - 1 <= n
       /\ n <= (MAX_KEYS + 1)^h - 1

\* an insert-only workload has brought the tree to height 3
C29_Witness ==
  /\ InsertOnly /\ result = "ok"
  /\ height(Store) = 3

\* ---- the table ----
\* C30: on a table that was newly created, every insert of a row that fits
\* in an empty page together with its slot entry returns a row id.
C30_InsertFits ==
  (table_call.op = "insert"
     /\ table_call.len + SLOT_SIZE <= PAGE_SIZE - PAGE_HEADER_SIZE)
  => table_call.res = "Ok"

\* ---- key sizes ----
\* The byte string of key k is the byte k followed by zero bytes up to its
\* length: the odd keys are 400 bytes long, the even keys 8, and the order
\* of the byte strings is the order of their first bytes.
key_len(key) == IF key % 2 = 1 THEN 400 ELSE 8

\* the bytes Node::to_page hands to the page: page id, leaf flag, key count,
\* then length, bytes and value of every key, then the child page ids
RECURSIVE SumOfKeyBytes(_)
SumOfKeyBytes(keys) ==
  IF keys = <<>> THEN 0
  ELSE 2 + key_len(Head(keys)) + 8 + SumOfKeyBytes(Tail(keys))
to_page_len(node) ==
  8 + 1 + 2 + SumOfKeyBytes(node.keys)
    + (IF node.is_leaf THEN 0 ELSE 8 * Len(node.children))

\* the longest key for which an internal node of MAX_KEYS keys still
\* serializes into the bytes of a page behind its header
max_key_size ==
  ((PAGE_SIZE - PAGE_HEADER_SIZE - 11 - 8 * (MAX_KEYS + 1)) \div MAX_KEYS) - 10

\* C33: no key longer than max_key_size is accepted by insert, and every
\* node of the tree serializes to no more bytes than a page has behind its
\* header
C33_KeySizeBounded ==
  /\ \A k \in DOMAIN expected : key_len(k) <= max_key_size
  /\ \A p \in DOMAIN pages :
       to_page_len(pages[p]) <= PAGE_SIZE - PAGE_HEADER_SIZE

\* C36: in the drain scenario no delete fails, and when the last key has
\* been deleted the tree is empty: no key is found and the range scan over
\* all keys returns nothing
C36_DrainNeverFails ==
  ops > 0 =>
    /\ result = "ok"
    /\ expected = <<>> =>
         /\ \A k \in DrainKeys : search(Store, k) = NoVal
         /\ range_scan(Store, 0, DrainCount + 1) = <<>>

\* ---- the pool under the tree ----
\* C37: an operation of the tree returns Ok and leaves every pin_count as it
\* was before it: that of an entry the operation has put into the pool is 0
C37_PinsReleased ==
  [][pool_calls' = pool_calls + 1 =>
       /\ pool_result' = "Ok"
       /\ \A p \in DOMAIN pool_pages' :
            pool_pages'[p].pin_count =
              IF p \in DOMAIN pool_pages THEN pool_pages[p].pin_count ELSE 0]_vars

\* ---- the pool over a file that rejects writes ----
\* C39: when the write of a dirty page is rejected during flush_page,
\* flush_all or the eviction of add_to_cache, the call returns the error,
\* and the entry of that page is still in the pool, still dirty, and still
\* in the LRU cache if it was there before the call
KeptAfterFailure(page_id) ==
  /\ pool_result' = "Io"
  /\ page_id \in DOMAIN pool_pages'
  /\ pool_pages'[page_id].dirty
  /\ page_id \in Range(lru) => page_id \in Range(lru')

C39_FailedWriteKeepsEntry ==
  [][/\ \A page_id \in DOMAIN pool_pages :
          (pool_pages[page_id].dirty /\ FlushPageFailing(page_id))
            => KeptAfterFailure(page_id)
     /\ LET bp == flush_all(FailingPool)
        IN (bp.res = "Io" /\ FlushAllFailing) => KeptAfterFailure(bp.failed)
     /\ \A c \in InFlight :
          c.pc = "add" =>
            LET bp == add_to_cache(FailingPool, c.page_id, c.page)
            IN (bp.res = "Io" /\ AddToCacheFailing(c))
                 => KeptAfterFailure(bp.failed)]_vars

\* C34: a row id made of a file id below 2^16, a page number below 2^32 and
\* a slot id splits into the same three components; for components outside
\* these widths make_row_id returns no row id that another page id and slot
\* id have
InBounds(arg) ==
  /\ arg.page_id.file_id[2] = 0 /\ arg.page_id.file_id[3] = 0
  /\ arg.page_id.file_id[4] = 0
  /\ arg.page_id.page_num[3] = 0 /\ arg.page_id.page_num[4] = 0

C34_RowIdInjective ==
  table_call.op = "make_row_id" =>
    IF InBounds(table_call.arg)
    THEN split_row_id(table_call.val) = table_call.arg
    ELSE \A other \in RowIdArgs :
           other # table_call.arg =>
             make_row_id(other.page_id, other.slot_id) # table_call.val

\* ---- the slotted page, error paths ----
\* C35: insert_record of a record with len + SLOT_SIZE above free_space(),
\* where free_space() is the value get_free_space computes without
\* overflow, returns the insufficient-space error and leaves the page as it
\* was: the bytes of the page (slot_count, free_space_offset, checksum and
\* every record among them) and its dirty flag
C35_InsufficientSpace ==
  [][(/\ page_call'.op = "insert"
      /\ page_ops' = page_ops + 1
      /\ get_free_space(slotted) >= 0
      /\ Len(page_call'.bytes) + SLOT_SIZE > get_free_space(slotted))
     => page_call'.res = "Err" /\ slotted' = slotted]_vars

C35_Witness ==
  /\ page_call.op = "insert" /\ page_call.res = "Err"
  /\ get_free_space(slotted) >= 0
  /\ Len(page_call.bytes) + SLOT_SIZE > get_free_space(slotted)
  /\ Len(page_call.bytes) <= get_free_space(slotted)
  /\ recs # <<>>

\* C38: no interleaving of the calls of the pool reaches a state in which a
\* task is inside a call and no task can take its next lock: the holder of
\* a page's write latch that calls mark_dirty or unpin_page always returns
C38_NoDeadlock ==
  (\E t \in LatchTasks : latch_pc[t] # "done") => ENABLED LatchNext

\* the rows the pages of the table hold: a scan returns no others
RECURSIVE StoredRows(_, _)
StoredRows(tb, page_ids) ==
  IF page_ids = {} THEN 0
  ELSE LET page_id == CHOOSE q \in page_ids : TRUE
       IN get_slot_count(tb.pages[page_id]) + StoredRows(tb, page_ids \ {page_id})

\* C32: every call of Table::insert made by the tasks returns a row id, and
\* the table then holds one row per call; the calls one after the other are
\* one of the interleavings of the tasks
C32_EveryInsertSucceeds ==
  table_call.op = "insert" =>
    /\ table_call.res = "Ok"
    /\ StoredRows(Table, DOMAIN table_pages) = table_calls

====
